---- MODULE Spec2Model ----
(***************************************************************************)
(* Columnar data model (dtype crate) and the DataSource scan protocol      *)
(* (dsource crate) of the dbms query engine.                               *)
(*                                                                         *)
(* Values:                                                                 *)
(*   DataType       a string, one per enum variant ("Int64", ...)          *)
(*   ArrowDataType  a string "arrow::<Variant>"                            *)
(*   Option<T>      None / Some(x)                                         *)
(*   Result<T, E>   Ok(x) / Err(e)                                         *)
(*   Vec<T>, &[T]   a sequence; Rust index i is TLA+ position i + 1        *)
(***************************************************************************)
EXTENDS Integers, Sequences, FiniteSets, TLC

VARIABLES
    source,   \* the DataSource value the caller holds
    iters,    \* the scan iterators the caller holds (Box<dyn Iterator>), oldest first
    ret,      \* the last call and what it returned
    sch,      \* a Schema value the caller holds (Schema operations)
    col       \* a Column value the caller holds (Column operations)

vars == <<source, iters, ret, sch, col>>

-----------------------------------------------------------------------------
(* Bounds of the model *)

MaxFields == 2      \* fields per schema / per file
MaxBatches == 2     \* stored batches per in-memory source, decoder steps per file
MaxNames == 2       \* names per projection list, indices per index list
MaxIters == 2       \* iterators held at once in the concurrent-session machine
MaxLen == 2         \* rows of a column built on its own

-----------------------------------------------------------------------------
(* Option and Result *)

None == [some |-> FALSE]
Some(x) == [some |-> TRUE, v |-> x]
Ok(x) == [ok |-> TRUE, v |-> x]
Err(e) == [ok |-> FALSE, err |-> e]

SeqsUpTo(S, n) == UNION {[1..k -> S] : k \in 0..n}

-----------------------------------------------------------------------------
(* dtype/src/lib.rs: the type system *)

DataType ==
    {"Boolean", "Int8", "Int16", "Int32", "Int64", "UInt8", "UInt16", "UInt32",
     "UInt64", "Float32", "Float64", "Utf8", "Binary"}

\* Arrow type tags with no DataType counterpart (a sample of the external enum).
UnsupportedArrow ==
    {"arrow::Null", "arrow::Float16", "arrow::Date32", "arrow::Timestamp",
     "arrow::LargeUtf8", "arrow::List"}

\* A mapping that sends two DataTypes to one tag.
ArrowFromDataTypeMerged(dt) ==
    CASE dt = "Boolean" -> "arrow::Boolean"
      [] dt = "Int8" -> "arrow::Int8"
      [] dt = "Int16" -> "arrow::Int16"
      [] dt = "Int32" -> "arrow::Int32"
      [] dt = "Int64" -> "arrow::Int64"
      [] dt = "UInt8" -> "arrow::UInt8"
      [] dt = "UInt16" -> "arrow::UInt16"
      [] dt = "UInt32" -> "arrow::UInt32"
      [] dt = "UInt64" -> "arrow::UInt64"
      [] dt = "Float32" -> "arrow::Float64"
      [] dt = "Float64" -> "arrow::Float64"
      [] dt = "Utf8" -> "arrow::Utf8"
      [] dt = "Binary" -> "arrow::Binary"

\* impl From<DataType> for ArrowDataType
ArrowFromDataType(dt) ==
    CASE dt = "Boolean" -> "arrow::Boolean"
      [] dt = "Int8" -> "arrow::Int8"
      [] dt = "Int16" -> "arrow::Int16"
      [] dt = "Int32" -> "arrow::Int32"
      [] dt = "Int64" -> "arrow::Int64"
      [] dt = "UInt8" -> "arrow::UInt8"
      [] dt = "UInt16" -> "arrow::UInt16"
      [] dt = "UInt32" -> "arrow::UInt32"
      [] dt = "UInt64" -> "arrow::UInt64"
      [] dt = "Float32" -> "arrow::Float32"
      [] dt = "Float64" -> "arrow::Float64"
      [] dt = "Utf8" -> "arrow::Utf8"
      [] dt = "Binary" -> "arrow::Binary"

\* impl TryFrom<ArrowDataType> for DataType
DataTypeTryFromArrow(t) ==
    CASE t = "arrow::Boolean" -> Ok("Boolean")
      [] t = "arrow::Int8" -> Ok("Int8")
      [] t = "arrow::Int16" -> Ok("Int16")
      [] t = "arrow::Int32" -> Ok("Int32")
      [] t = "arrow::Int64" -> Ok("Int64")
      [] t = "arrow::UInt8" -> Ok("UInt8")
      [] t = "arrow::UInt16" -> Ok("UInt16")
      [] t = "arrow::UInt32" -> Ok("UInt32")
      [] t = "arrow::UInt64" -> Ok("UInt64")
      [] t = "arrow::Float32" -> Ok("Float32")
      [] t = "arrow::Float64" -> Ok("Float64")
      [] t = "arrow::Utf8" -> Ok("Utf8")
      [] t = "arrow::Binary" -> Ok("Binary")
      [] OTHER -> Err("unsupported Arrow type")

ArrowDataType == {ArrowFromDataType(d) : d \in DataType} \cup UnsupportedArrow

-----------------------------------------------------------------------------
(* dtype/src/column.rs: Scalar and Column *)

\* enum Scalar: one variant per DataType wrapping an Option payload.
Scalar(variant, payload) == [variant |-> variant, payload |-> payload]

\* Scalar::null
ScalarNull(dtype) == Scalar(dtype, None)

\* Scalar::dtype
ScalarDtype(s) == s.variant

\* An external array (ArrayRef): its type tag, the storage the handle shares,
\* and its slots (None is a null slot).
ArrowArray(data_type, handle, values) ==
    [data_type |-> data_type, handle |-> handle, values |-> values]

\* Column::Array(ArrayRef): the enum variant, public like the enum.
ColumnArray(arr) == [kind |-> "Array", arr |-> arr]

\* Column::Literal { value, len }
ColumnLiteral(value, len) == [kind |-> "Literal", value |-> value, len |-> len]

\* A conversion that wraps the array without looking at its type tag.
ColumnTryFromUnchecked(array) == Ok(ColumnArray(array))

\* impl TryFrom<ArrayRef> for Column
ColumnTryFrom(array) ==
    LET dt == DataTypeTryFromArrow(array.data_type)
    IN  IF ~dt.ok THEN Err(dt.err) ELSE Ok(ColumnArray(array))

\* Column::from_literal
ColumnFromLiteral(value, len) == ColumnLiteral(value, len)

\* Column::len
ColumnLen(c) == IF c.kind = "Array" THEN Len(c.arr.values) ELSE c.len

\* A call either returns a value or panics.
Returned(x) == [panic |-> FALSE, v |-> x]
Panic(msg) == [panic |-> TRUE, msg |-> msg]

\* Column::dtype
ColumnDtype(c) ==
    IF c.kind = "Array"
    THEN LET dt == DataTypeTryFromArrow(c.arr.data_type)
         IN  IF dt.ok THEN Returned(dt.v) ELSE Panic("unsupported Arrow type")
    ELSE Returned(ScalarDtype(c.value))

\* A bounds check that lets i = len through.
ColumnGetOffByOne(c, i) ==
    IF c.kind = "Literal"
    THEN IF ~(i <= c.len) THEN Panic("index out of bounds") ELSE Returned(c.value)
    ELSE Panic("index out of bounds")

\* Column::get
ColumnGet(c, i) ==
    IF c.kind = "Literal"
    THEN IF ~(i < c.len) THEN Panic("index out of bounds") ELSE Returned(c.value)
    ELSE IF ~(i < Len(c.arr.values))
         THEN Panic("index out of bounds")      \* the array's own bounds assertion
         ELSE LET dt == ColumnDtype(c)
              IN  IF dt.panic THEN dt
                  ELSE IF ~c.arr.values[i + 1].some
                       THEN Returned(ScalarNull(dt.v))
                       ELSE Returned(Scalar(dt.v, Some(c.arr.values[i + 1].v)))

-----------------------------------------------------------------------------
(* dtype/src/field.rs, dtype/src/schema.rs: Field and Schema *)

\* Field::new; a Schema is modelled by its Vec<Field>.
Field(name, dtype) == [name |-> name, dtype |-> dtype]

\* impl From<Field> for ArrowField (nullable = true)
ArrowField(name, data_type) == [name |-> name, data_type |-> data_type]
ArrowFieldFromField(f) == ArrowField(f.name, ArrowFromDataType(f.dtype))

\* impl From<Schema> for ArrowSchema
ArrowSchemaFromSchema(s) == [k \in 1..Len(s) |-> ArrowFieldFromField(s[k])]

\* A projection that returns the chosen fields in schema order.
SchemaProjectSorted(fields, indices) ==
    LET chosen == {indices[k] : k \in 1..Len(indices)}
        F[i \in 0..Len(fields)] ==
            IF i = 0 THEN <<>>
            ELSE IF (i - 1) \in chosen THEN Append(F[i - 1], fields[i]) ELSE F[i - 1]
    IN  F[Len(fields)]

\* Schema::project: indices.iter().map(|&i| self.fields[i].clone()).collect()
SchemaProject(fields, indices) ==
    LET F[k \in 0..Len(indices)] ==
            IF k = 0 THEN <<>> ELSE Append(F[k - 1], fields[indices[k] + 1])
    IN  F[Len(indices)]

\* A lookup that returns the last field with the name.
FindFieldLast(fields, name) ==
    LET F[i \in 0..Len(fields)] ==
            IF i = 0 THEN None
            ELSE IF fields[i].name = name THEN Some(fields[i]) ELSE F[i - 1]
    IN  F[Len(fields)]

\* self.fields.iter().find(|f| f.name() == *name).cloned()
FindField(fields, name) ==
    LET F[i \in 1..(Len(fields) + 1)] ==
            IF i = Len(fields) + 1 THEN None
            ELSE IF fields[i].name = name THEN Some(fields[i]) ELSE F[i + 1]
    IN  F[1]

\* Schema::select: the first absent name ends the collect with its error.
SchemaSelect(fields, names) ==
    LET F[k \in 0..Len(names)] ==
            IF k = 0 THEN Ok(<<>>)
            ELSE IF ~F[k - 1].ok THEN F[k - 1]
            ELSE LET f == FindField(fields, names[k])
                 IN  IF f.some THEN Ok(Append(F[k - 1].v, f.v))
                     ELSE Err(<<"field not found", names[k]>>)
    IN  F[Len(names)]

-----------------------------------------------------------------------------
(* dtype/src/record.rs: RecordBatch *)

\* RecordBatch::new
RecordBatch(schema, columns) == [schema |-> schema, columns |-> columns]

\* RecordBatch::field
BatchField(batch, i) == batch.columns[i + 1]

\* RecordBatch::row_count
RowCount(batch) == IF batch.columns = <<>> THEN 0 ELSE ColumnLen(batch.columns[1])

\* RecordBatch::column_count
ColumnCount(batch) == Len(batch.columns)

\* An external record batch: its arrow fields and one array per field.
ArrowRecordBatch(fields, arrays) == [schema |-> fields, columns |-> arrays]

\* Schema::try_from(&ArrowSchema): every field's type through
\* DataType::try_from, the first unsupported one failing the conversion.
SchemaTryFromArrow(fields) ==
    LET F[k \in 0..Len(fields)] ==
            IF k = 0 THEN Ok(<<>>)
            ELSE IF ~F[k - 1].ok THEN F[k - 1]
            ELSE LET dt == DataTypeTryFromArrow(fields[k].data_type)
                 IN  IF dt.ok THEN Ok(Append(F[k - 1].v, Field(fields[k].name, dt.v)))
                     ELSE Err(dt.err)
    IN  F[Len(fields)]

\* A conversion that drops the fields and columns it cannot convert and keeps
\* the rest.
RecordBatchTryFromLossy(batch) ==
    LET S[k \in 0..Len(batch.schema)] ==
            IF k = 0 THEN <<>>
            ELSE LET dt == DataTypeTryFromArrow(batch.schema[k].data_type)
                 IN  IF dt.ok THEN Append(S[k - 1], Field(batch.schema[k].name, dt.v))
                     ELSE S[k - 1]
        C[k \in 0..Len(batch.columns)] ==
            IF k = 0 THEN <<>>
            ELSE LET c == ColumnTryFrom(batch.columns[k])
                 IN  IF c.ok THEN Append(C[k - 1], c.v) ELSE C[k - 1]
    IN  Ok(RecordBatch(S[Len(batch.schema)], C[Len(batch.columns)]))

\* impl TryFrom<ArrowRecordBatch> for RecordBatch
RecordBatchTryFrom(batch) ==
    LET schema == SchemaTryFromArrow(batch.schema)
        C[k \in 0..Len(batch.columns)] ==
            IF k = 0 THEN Ok(<<>>)
            ELSE IF ~C[k - 1].ok THEN C[k - 1]
            ELSE LET c == ColumnTryFrom(batch.columns[k])
                 IN  IF c.ok THEN Ok(Append(C[k - 1].v, c.v)) ELSE Err(c.err)
        columns == C[Len(batch.columns)]
    IN  IF ~schema.ok THEN Err(schema.err)
        ELSE IF ~columns.ok THEN Err(columns.err)
        ELSE Ok(RecordBatch(schema.v, columns.v))

-----------------------------------------------------------------------------
(* dsource: name resolution shared by the in-memory and CSV scans *)

\* A lookup that returns the last index carrying the name.
PositionLast(fields, name) ==
    LET F[i \in 0..Len(fields)] ==
            IF i = 0 THEN None
            ELSE IF fields[i].name = name THEN Some(i - 1) ELSE F[i - 1]
    IN  F[Len(fields)]

\* fields().iter().position(|f| f.name() == *name)
Position(fields, name) ==
    LET F[i \in 1..(Len(fields) + 1)] ==
            IF i = Len(fields) + 1 THEN None
            ELSE IF fields[i].name = name THEN Some(i - 1) ELSE F[i + 1]
    IN  F[1]

\* A resolution that skips the names it cannot find.
ResolveIndicesLenient(fields, cols) ==
    LET F[k \in 0..Len(cols)] ==
            IF k = 0 THEN Ok(<<>>)
            ELSE LET p == Position(fields, cols[k])
                 IN  IF p.some THEN Ok(Append(F[k - 1].v, p.v)) ELSE F[k - 1]
    IN  F[Len(cols)]

\* cols.iter().map(|name| position(..).ok_or_else(..)).collect::<Result<Vec<_>, _>>()
ResolveIndices(fields, cols) ==
    LET F[k \in 0..Len(cols)] ==
            IF k = 0 THEN Ok(<<>>)
            ELSE IF ~F[k - 1].ok THEN F[k - 1]
            ELSE LET p == Position(fields, cols[k])
                 IN  IF p.some THEN Ok(Append(F[k - 1].v, p.v))
                     ELSE Err(<<"column not found", cols[k]>>)
    IN  F[Len(cols)]

-----------------------------------------------------------------------------
(* dsource/src/memory.rs: InMemoryDataSource *)

\* InMemoryDataSource::new
InMemoryDataSource(schema, batches) ==
    [kind |-> "memory", schema |-> schema, batches |-> batches]

\* InMemoryDataSource::schema
MemorySchema(src) == Ok(src.schema)

\* A projection that takes the columns in the reverse of the requested order.
MemoryProjectBatchReversed(batch, indices, projected_schema) ==
    RecordBatch(projected_schema,
                [k \in 1..Len(indices) |->
                    BatchField(batch, indices[Len(indices) - k + 1])])

\* The closure of scan's map over self.batches: one projected batch.
MemoryProjectBatch(batch, indices, projected_schema) ==
    RecordBatch(projected_schema,
                [k \in 1..Len(indices) |-> BatchField(batch, indices[k])])

\* A scan that treats an empty name list like no projection.
MemoryScanEmptyIsAll(src, projection) ==
    IF ~projection.some \/ projection.v = <<>> THEN Ok(src.batches)
    ELSE LET indices == ResolveIndices(src.schema, projection.v)
         IN  IF ~indices.ok THEN Err(indices.err)
             ELSE LET projected_schema == SchemaProject(src.schema, indices.v)
                  IN  Ok([b \in 1..Len(src.batches) |->
                            MemoryProjectBatch(src.batches[b], indices.v,
                                               projected_schema)])

\* InMemoryDataSource::scan up to the Vec the iterator is built from.
MemoryScan(src, projection) ==
    IF ~projection.some THEN Ok(src.batches)
    ELSE LET indices == ResolveIndices(src.schema, projection.v)
         IN  IF ~indices.ok THEN Err(indices.err)
             ELSE LET projected_schema == SchemaProject(src.schema, indices.v)
                  IN  Ok([b \in 1..Len(src.batches) |->
                            MemoryProjectBatch(src.batches[b], indices.v,
                                               projected_schema)])

-----------------------------------------------------------------------------
(* The external decoders, as far as the sources use them.  A file is what   *)
(* is at the source's path: whether it opens, the arrow schema the decoder  *)
(* reports for it, and what the decoder's successive reads produce (a batch *)
(* or a decode error).  A reader yields, for every read that produces a     *)
(* batch, the arrays of its selected columns under the selected fields.     *)

File(exists, fields, decoded) ==
    [exists |-> exists, fields |-> fields, decoded |-> decoded]

Reader(schema, columns, pending) ==
    [schema |-> schema, columns |-> columns, pending |-> pending, n |-> 0]

\* The batch a reader decodes at its n-th read: n rows, the first slot null.
DecodedBatch(reader, n) ==
    ArrowRecordBatch(
        [k \in 1..Len(reader.columns) |-> reader.schema[reader.columns[k] + 1]],
        [k \in 1..Len(reader.columns) |->
            ArrowArray(reader.schema[reader.columns[k] + 1].data_type,
                       <<"file", n, reader.columns[k]>>,
                       [r \in 1..n |-> IF r = 1 THEN None ELSE Some(r)])])

\* reader.next(): Option<Result<ArrowRecordBatch, ArrowError>> and the reader after it.
ReaderNext(reader) ==
    IF reader.pending = <<>> THEN [item |-> None, reader |-> reader]
    ELSE LET after == [reader EXCEPT !.pending = Tail(@), !.n = @ + 1]
         IN  IF Head(reader.pending) = "error"
             THEN [item |-> Some(Err("decode error")), reader |-> after]
             ELSE [item |-> Some(Ok(DecodedBatch(reader, reader.n + 1))),
                   reader |-> after]

AllColumns(fields) == [k \in 1..Len(fields) |-> k - 1]

-----------------------------------------------------------------------------
(* dsource/src/csv.rs: CsvDataSource *)

\* CsvDataSource::new (batch_size only sizes the decoder's reads)
CsvDataSource(path, schema) == [kind |-> "csv", path |-> path, schema |-> schema]

\* CsvDataSource::schema
CsvSchema(src) ==
    IF src.schema.some THEN Ok(src.schema.v)
    ELSE IF ~src.path.exists THEN Err("io error")
    ELSE SchemaTryFromArrow(src.path.fields)

\* CsvDataSource::scan up to the reader the iterator wraps.
CsvScan(src, projection) ==
    LET schema == CsvSchema(src)
    IN  IF ~schema.ok THEN Err(schema.err)
        ELSE IF ~src.path.exists THEN Err("io error")
        ELSE LET arrow_schema == ArrowSchemaFromSchema(schema.v)
             IN  IF ~projection.some
                 THEN Ok(Reader(arrow_schema, AllColumns(arrow_schema),
                                src.path.decoded))
                 ELSE LET indices == ResolveIndices(schema.v, projection.v)
                      IN  IF ~indices.ok THEN Err(indices.err)
                          ELSE Ok(Reader(arrow_schema, indices.v, src.path.decoded))

-----------------------------------------------------------------------------
(* dsource/src/parquet.rs: ParquetDataSource *)

\* ParquetDataSource::new
ParquetDataSource(path) == [kind |-> "parquet", path |-> path]

\* ParquetDataSource::schema
ParquetSchema(src) ==
    IF ~src.path.exists THEN Err("io error")
    ELSE SchemaTryFromArrow(src.path.fields)

\* mask.iter().enumerate().filter_map(|(i, &b)| if b { Some(i) } else { None })
\* over mask[i] = cols.contains(field i's name): the selected leaves, ascending.
ParquetLeaves(fields, cols) ==
    LET names == {cols[k] : k \in 1..Len(cols)}
        F[i \in 0..Len(fields)] ==
            IF i = 0 THEN <<>>
            ELSE IF fields[i].name \in names THEN Append(F[i - 1], i - 1)
            ELSE F[i - 1]
    IN  F[Len(fields)]

\* A scan that resolves the names like the other two sources and fails on
\* the first one the file does not declare.
ParquetScanFailFast(src, projection) ==
    IF ~src.path.exists THEN Err("io error")
    ELSE LET arrow_schema == src.path.fields
         IN  IF ~projection.some
             THEN Ok(Reader(arrow_schema, AllColumns(arrow_schema), src.path.decoded))
             ELSE LET indices == ResolveIndices(arrow_schema, projection.v)
                  IN  IF ~indices.ok THEN Err(indices.err)
                      ELSE Ok(Reader(arrow_schema,
                                     ParquetLeaves(arrow_schema, projection.v),
                                     src.path.decoded))

\* ParquetDataSource::scan up to the reader the iterator wraps.
ParquetScan(src, projection) ==
    IF ~src.path.exists THEN Err("io error")
    ELSE LET arrow_schema == src.path.fields
         IN  IF ~projection.some
             THEN Ok(Reader(arrow_schema, AllColumns(arrow_schema), src.path.decoded))
             ELSE Ok(Reader(arrow_schema, ParquetLeaves(arrow_schema, projection.v),
                            src.path.decoded))

-----------------------------------------------------------------------------
(* The DataSource trait, dispatched on the source *)

\* DataSource::schema
SourceSchema(src) ==
    CASE src.kind = "memory" -> MemorySchema(src)
      [] src.kind = "csv" -> CsvSchema(src)
      [] src.kind = "parquet" -> ParquetSchema(src)

\* The iterator a successful scan boxes: batches.into_iter() for the in-memory
\* source, a batch iterator around the reader for the file sources.  proj,
\* yielded and done record the scan's argument, the items next() has returned
\* and whether it has returned None.
MemoryIter(projection, batches) ==
    [kind |-> "memory", proj |-> projection, items |-> batches,
     yielded |-> <<>>, done |-> FALSE]

FileIter(kind, projection, reader) ==
    [kind |-> kind, proj |-> projection, reader |-> reader,
     yielded |-> <<>>, done |-> FALSE]

\* DataSource::scan: Ok(iterator) or Err
SourceScan(src, projection) ==
    CASE src.kind = "memory" ->
            LET r == MemoryScan(src, projection)
            IN  IF r.ok THEN Ok(MemoryIter(projection, r.v)) ELSE r
      [] src.kind = "csv" ->
            LET r == CsvScan(src, projection)
            IN  IF r.ok THEN Ok(FileIter("csv", projection, r.v)) ELSE r
      [] src.kind = "parquet" ->
            LET r == ParquetScan(src, projection)
            IN  IF r.ok THEN Ok(FileIter("parquet", projection, r.v)) ELSE r

\* Iterator::next on batches.into_iter().map(Ok)
MemoryIterNext(it) ==
    IF it.items = <<>> THEN [item |-> None, it |-> [it EXCEPT !.done = TRUE]]
    ELSE [item |-> Some(Ok(Head(it.items))),
          it |-> [it EXCEPT !.items = Tail(@),
                            !.yielded = Append(@, Ok(Head(it.items)))]]

\* CsvBatchIterator::next, ParquetBatchIterator::next
FileIterNext(it) ==
    LET r == ReaderNext(it.reader)
    IN  IF ~r.item.some
        THEN [item |-> None, it |-> [it EXCEPT !.reader = r.reader, !.done = TRUE]]
        ELSE LET item == IF r.item.v.ok THEN RecordBatchTryFrom(r.item.v.v)
                         ELSE Err(r.item.v.err)
             IN  [item |-> Some(item),
                  it |-> [it EXCEPT !.reader = r.reader,
                                    !.yielded = Append(@, item)]]

IterStep(it) == IF it.kind = "memory" THEN MemoryIterNext(it) ELSE FileIterNext(it)

-----------------------------------------------------------------------------
(* The values the operations are run on *)

FieldNames == {"a", "b"}

\* Names a caller may ask for: the field names and one no schema has.
ProjectionNames == FieldNames \cup {"ghost"}

\* Two fields share the name "a": Schema does not enforce unique names.
FieldPool == {Field("a", "Int64"), Field("b", "Utf8"), Field("a", "Utf8")}

\* The arrow fields a file may declare; Date32 has no DataType.
ArrowFieldPool ==
    {ArrowField("a", "arrow::Int64"), ArrowField("b", "arrow::Utf8"),
     ArrowField("a", "arrow::Utf8"), ArrowField("b", "arrow::Date32")}

Schemas == SeqsUpTo(FieldPool, MaxFields)
ArrowSchemas == SeqsUpTo(ArrowFieldPool, MaxFields)
Decodings == SeqsUpTo({"batch", "error"}, MaxBatches)
Projections == {None} \cup {Some(p) : p \in SeqsUpTo(ProjectionNames, MaxNames)}

\* Column j (from 0) of stored batch n: n rows, every column its own value or
\* storage, literal and array columns alternating.
StoredColumn(n, j, dtype) ==
    IF j % 2 = 0
    THEN ColumnFromLiteral(Scalar(dtype, Some(10 * n + j)), n)
    ELSE ColumnArray(ArrowArray(ArrowFromDataType(dtype), <<"mem", n, j>>,
                                [r \in 1..n |-> IF r = 1 THEN None ELSE Some(r)]))

\* n stored batches conforming to the schema.
StoredBatches(schema, n) ==
    [b \in 1..n |->
        RecordBatch(schema,
                    [k \in 1..Len(schema) |-> StoredColumn(b, k - 1, schema[k].dtype)])]

NoFile == File(FALSE, <<>>, <<>>)

MemorySources ==
    {InMemoryDataSource(s, StoredBatches(s, n)) : s \in Schemas, n \in 0..MaxBatches}

CsvSources ==
    {CsvDataSource(File(TRUE, f, d), None) : f \in ArrowSchemas, d \in Decodings}
    \cup {CsvDataSource(File(TRUE, ArrowSchemaFromSchema(s), d), Some(s)) :
            s \in Schemas, d \in Decodings}
    \cup {CsvDataSource(NoFile, None)}
    \cup {CsvDataSource(NoFile, Some(s)) : s \in Schemas}

ParquetSources ==
    {ParquetDataSource(File(TRUE, f, d)) : f \in ArrowSchemas, d \in Decodings}
    \cup {ParquetDataSource(NoFile)}

Sources == MemorySources \cup CsvSources \cup ParquetSources

Payloads == {None, Some(1)}
Scalars == {Scalar(d, p) : d \in DataType, p \in Payloads}
\* Arrays of every type tag and length, the first slot null.
Arrays ==
    {ArrowArray(t, "h", [r \in 1..n |-> IF r = 1 THEN None ELSE Some(r)]) :
        t \in ArrowDataType, n \in 0..MaxLen}

NoSource == [kind |-> "none"]

\* col: the Column held, with how it was built (via) and from what (ctor).
Held(val, via, ctor) == [val |-> val, via |-> via, ctor |-> ctor]
NoColumn == Held([kind |-> "none"], "none", <<>>)

-----------------------------------------------------------------------------
(* The data-source machine: one source, the trait's two operations, and     *)
(* next() and drop on the iterators scan returned.                          *)

InitSource(S) ==
    /\ source \in S
    /\ iters = <<>>
    /\ ret = [op |-> "new"]
    /\ sch = <<>>
    /\ col = NoColumn

\* source.schema()
SchemaCall ==
    /\ ret' = [op |-> "schema", out |-> SourceSchema(source)]
    /\ UNCHANGED <<source, iters, sch, col>>

\* source.scan(projection): on Ok the caller holds one more iterator.
ScanCall(projection) ==
    LET r == SourceScan(source, projection)
    IN  /\ iters' = IF r.ok THEN Append(iters, r.v) ELSE iters
        /\ ret' = [op |-> "scan", projection |-> projection, ok |-> r.ok]
        /\ UNCHANGED <<source, sch, col>>

\* A next() that moves every iterator's cursor, as one shared cursor would.
NextCallShared(i) ==
    /\ i \in 1..Len(iters)
    /\ iters' = [j \in 1..Len(iters) |->
                    IF j = i THEN IterStep(iters[j]).it
                    ELSE [IterStep(iters[j]).it EXCEPT
                            !.yielded = iters[j].yielded, !.done = iters[j].done]]
    /\ ret' = [op |-> "next", item |-> IterStep(iters[i]).item]
    /\ UNCHANGED <<source, sch, col>>

\* iters[i].next()
NextCall(i) ==
    /\ i \in 1..Len(iters)
    /\ iters' = [iters EXCEPT ![i] = IterStep(iters[i]).it]
    /\ ret' = [op |-> "next", item |-> IterStep(iters[i]).item]
    /\ UNCHANGED <<source, sch, col>>

\* drop(iters[i]): the iterator is abandoned, finished or not.
DropCall(i) ==
    /\ i \in 1..Len(iters)
    /\ iters' = [j \in 1..(Len(iters) - 1) |-> IF j < i THEN iters[j] ELSE iters[j + 1]]
    /\ ret' = [op |-> "drop"]
    /\ UNCHANGED <<source, sch, col>>

\* Any source, any projection, one scan session at a time.
Init == InitSource(Sources)

Scan == \E p \in Projections : iters = <<>> /\ ScanCall(p)
IterNext == \E i \in 1..Len(iters) : NextCall(i)
IterDrop == \E i \in 1..Len(iters) : DropCall(i)

Next == SchemaCall \/ Scan \/ IterNext \/ IterDrop

Spec == Init /\ [][Next]_vars

\* The in-memory source under up to MaxIters interleaved scan(None) sessions.
InitSessions == InitSource(MemorySources)

ScanNone == Len(iters) < MaxIters /\ ScanCall(None)

NextSessions == SchemaCall \/ ScanNone \/ IterNext \/ IterDrop

SpecSessions == InitSessions /\ [][NextSessions]_vars

-----------------------------------------------------------------------------
(* Schema operations on a schema the caller holds *)

InitSchema ==
    /\ sch \in Schemas
    /\ ret = [op |-> "new"]
    /\ source = NoSource
    /\ iters = <<>>
    /\ col = NoColumn

\* In-range index lists, repeats and any order included.
IndexLists == SeqsUpTo(0..(Len(sch) - 1), MaxNames)

\* sch.project(indices)
Project ==
    \E indices \in IndexLists :
        /\ ret' = [op |-> "project", self |-> sch, indices |-> indices,
                   out |-> SchemaProject(sch, indices)]
        /\ UNCHANGED <<source, iters, sch, col>>

\* sch.select(names); before is the result of the call just before it when
\* that was the same call.
Select ==
    \E names \in SeqsUpTo(ProjectionNames, MaxNames) :
        /\ ret' = [op |-> "select", self |-> sch, names |-> names,
                   out |-> SchemaSelect(sch, names),
                   before |-> IF ret.op = "select" /\ ret.names = names
                              THEN Some(ret.out) ELSE None]
        /\ UNCHANGED <<source, iters, sch, col>>

NextSchema == Project \/ Select

SpecSchema == InitSchema /\ [][NextSchema]_vars

-----------------------------------------------------------------------------
(* Column and type-mapping operations on a column the caller holds *)

InitColumn ==
    /\ col = NoColumn
    /\ ret = [op |-> "new"]
    /\ source = NoSource
    /\ iters = <<>>
    /\ sch = <<>>

\* Column::try_from(array): the caller holds the column only on Ok.
TryFromArray ==
    \E array \in Arrays :
        LET r == ColumnTryFrom(array)
        IN  /\ col' = IF r.ok THEN Held(r.v, "try_from", array) ELSE col
            /\ ret' = [op |-> "try_from", array |-> array, out |-> r, held |-> col]
            /\ UNCHANGED <<source, iters, sch>>

\* Column::Array(array), the variant written out by the caller.
ArrayVariant ==
    \E array \in Arrays :
        /\ col' = Held(ColumnArray(array), "variant", array)
        /\ ret' = [op |-> "variant", array |-> array]
        /\ UNCHANGED <<source, iters, sch>>

\* Column::from_literal(value, len)
FromLiteral ==
    \E value \in Scalars, len \in 0..MaxLen :
        /\ col' = Held(ColumnFromLiteral(value, len), "from_literal",
                       [value |-> value, len |-> len])
        /\ ret' = [op |-> "from_literal"]
        /\ UNCHANGED <<source, iters, sch>>

\* col.len()
LenCall ==
    /\ col # NoColumn
    /\ ret' = [op |-> "len", self |-> col, out |-> ColumnLen(col.val)]
    /\ UNCHANGED <<source, iters, sch, col>>

\* col.dtype()
DtypeCall ==
    /\ col # NoColumn
    /\ ret' = [op |-> "dtype", self |-> col, out |-> ColumnDtype(col.val)]
    /\ UNCHANGED <<source, iters, sch, col>>

\* col.get(i), in and out of bounds
GetCall ==
    \E i \in 0..(MaxLen + 1) :
        /\ col # NoColumn
        /\ ret' = [op |-> "get", self |-> col, i |-> i, out |-> ColumnGet(col.val, i)]
        /\ UNCHANGED <<source, iters, sch, col>>

\* ArrowDataType::from(dt)
IntoArrow ==
    \E dt \in DataType :
        /\ ret' = [op |-> "into_arrow", dt |-> dt, out |-> ArrowFromDataType(dt)]
        /\ UNCHANGED <<source, iters, sch, col>>

\* DataType::try_from(tag); from is the DataType the tag was converted from
\* when the call just before was that conversion.
FromArrow ==
    \E tag \in ArrowDataType :
        /\ ret' = [op |-> "from_arrow", tag |-> tag, out |-> DataTypeTryFromArrow(tag),
                   from |-> IF ret.op = "into_arrow" /\ ret.out = tag
                            THEN Some(ret.dt) ELSE None]
        /\ UNCHANGED <<source, iters, sch, col>>

NextColumn ==
    \/ TryFromArray \/ ArrayVariant \/ FromLiteral
    \/ LenCall \/ DtypeCall \/ GetCall
    \/ IntoArrow \/ FromArrow

SpecColumn == InitColumn /\ [][NextColumn]_vars

-----------------------------------------------------------------------------
(* Vocabulary of the properties *)

NamesOf(fields) == [k \in 1..Len(fields) |-> fields[k].name]

NameSet(fields) == {fields[k].name : k \in 1..Len(fields)}

\* The lowest position (from 1) of a field with the name.
FirstNamed(fields, name) ==
    CHOOSE i \in 1..Len(fields) :
        /\ fields[i].name = name
        /\ \A j \in 1..(i - 1) : fields[j].name # name

\* The names a projection may use: those of the source's unprojected schema.
\* The columnar file's are the names its embedded schema declares.
SourceFields(src) ==
    CASE src.kind = "memory" -> src.schema
      [] src.kind = "csv" -> IF CsvSchema(src).ok THEN CsvSchema(src).v ELSE <<>>
      [] src.kind = "parquet" -> src.path.fields
      [] OTHER -> <<>>

AllPresent(src, names) ==
    \A k \in 1..Len(names) : names[k] \in NameSet(SourceFields(src))

\* The RecordBatch invariant of a batch against the schema it carries.
WellFormed(batch) ==
    /\ Len(batch.columns) = Len(batch.schema)
    /\ \A k \in 1..Len(batch.columns) :
           ColumnDtype(batch.columns[k]) = Returned(batch.schema[k].dtype)
    /\ \A j, k \in 1..Len(batch.columns) :
           ColumnLen(batch.columns[j]) = ColumnLen(batch.columns[k])

-----------------------------------------------------------------------------
(* Properties of the data-source machine *)

\* C1: on every source, every batch yielded by scan(Some(names)), names
\* non-empty and all in the source's schema, carries a schema whose field
\* names are, position by position, the caller's list in the caller's order.
C1_ProjectedNamesAreCallerOrder ==
    \A i \in 1..Len(iters) :
        LET it == iters[i]
        IN  (it.proj.some /\ it.proj.v # <<>> /\ AllPresent(source, it.proj.v)) =>
                \A b \in 1..Len(it.yielded) :
                    it.yielded[b].ok => NamesOf(it.yielded[b].v.schema) = it.proj.v

\* C2: the in-memory scan(Some(names)), all names present, yields for each
\* stored batch in stored order one batch with Len(names) columns, whose
\* k-th column and k-th schema field are the stored batch's column and the
\* source schema's field at the first position named names[k].
C2_MemoryProjectionSelectsFirstNamed ==
    \A i \in 1..Len(iters) :
        LET it == iters[i]
        IN  (it.kind = "memory" /\ it.proj.some /\ AllPresent(source, it.proj.v)) =>
                /\ Len(it.yielded) <= Len(source.batches)
                /\ it.done => Len(it.yielded) = Len(source.batches)
                /\ \A b \in 1..Len(it.yielded) :
                       /\ it.yielded[b].ok
                       /\ Len(it.yielded[b].v.columns) = Len(it.proj.v)
                       /\ Len(it.yielded[b].v.schema) = Len(it.proj.v)
                       /\ \A k \in 1..Len(it.proj.v) :
                              LET p == FirstNamed(source.schema, it.proj.v[k])
                              IN  /\ it.yielded[b].v.columns[k]
                                        = source.batches[b].columns[p]
                                  /\ it.yielded[b].v.schema[k] = source.schema[p]

\* C2 witness: a finished in-memory scan of a two-batch source that asked for
\* the same name twice, the name carried by two different fields.
C2_Witness ==
    /\ source.kind = "memory"
    /\ Len(iters) = 1
    /\ iters[1].done
    /\ Len(iters[1].yielded) = 2
    /\ iters[1].proj = Some(<<"a", "a">>)
    /\ Len(source.schema) = 2
    /\ source.schema[1].name = "a"
    /\ source.schema[2].name = "a"
    /\ source.schema[1] # source.schema[2]

\* C3: on the in-memory and CSV sources a scan(Some(names)) with a name
\* absent from the unprojected schema returns Err from scan itself, wherever
\* the name sits: the caller gets no iterator, so no batch is ever yielded.
C3_MissingNameFailsTheScan ==
    source.kind \in {"memory", "csv"} =>
        /\ (/\ ret.op = "scan"
            /\ ret.projection.some
            /\ ~AllPresent(source, ret.projection.v))
              => (~ret.ok /\ iters = <<>>)
        /\ \A i \in 1..Len(iters) :
               iters[i].proj.some => AllPresent(source, iters[i].proj.v)

\* C3 witness: a CSV scan whose list ends with the one absent name, after a
\* name that exists, has returned Err.
C3_Witness ==
    /\ source.kind = "csv"
    /\ CsvSchema(source).ok
    /\ "a" \in NameSet(SourceFields(source))
    /\ source.path.decoded # <<>>
    /\ ret.op = "scan"
    /\ ret.projection = Some(<<"a", "ghost">>)
    /\ ~ret.ok
    /\ iters = <<>>

\* C4: every batch a scan yields satisfies the RecordBatch invariant against
\* the schema it carries (column count, per-index dtype, one length), and
\* under scan(None) its column count is source.schema().fields().len().
C4_YieldedBatchesAreWellFormed ==
    \A i \in 1..Len(iters) :
        \A b \in 1..Len(iters[i].yielded) :
            LET item == iters[i].yielded[b]
            IN  item.ok =>
                    /\ WellFormed(item.v)
                    /\ (~iters[i].proj.some /\ SourceSchema(source).ok) =>
                           ColumnCount(item.v) = Len(SourceSchema(source).v)

\* C4 witness: an in-memory projection that reverses two columns of
\* different dtypes has yielded a batch with rows.
C4_Witness ==
    /\ source.kind = "memory"
    /\ Len(iters) = 1
    /\ iters[1].proj = Some(<<"b", "a">>)
    /\ source.schema = <<Field("a", "Int64"), Field("b", "Utf8")>>
    /\ Len(iters[1].yielded) = 2
    /\ RowCount(iters[1].yielded[2].v) = 2

\* C10: under any interleaving of next() over the iterators of scan(None)
\* on the in-memory source, abandoned and later-started ones included, every
\* iterator run to completion has yielded exactly the stored batches in
\* stored order, and no step of schema(), scan(), next() or drop changes the
\* source.
C10_SessionsAreIndependent ==
    /\ [](\A i \in 1..Len(iters) :
              iters[i].done =>
                  iters[i].yielded
                      = [b \in 1..Len(source.batches) |-> Ok(source.batches[b])])
    /\ [][source' = source]_vars

\* C10 witness: the later of two iterators has run to completion over two
\* batches while the earlier one stands after its first batch.
C10_Witness ==
    /\ Len(iters) = 2
    /\ Len(source.batches) = 2
    /\ Len(source.schema) = 2
    /\ Len(iters[1].yielded) = 1
    /\ ~iters[1].done
    /\ iters[2].done
    /\ Len(iters[2].yielded) = 2

-----------------------------------------------------------------------------
(* Properties of the Schema operations *)

\* C5: Schema::project(indices) returns len(indices) fields, the k-th being
\* the schema's field at indices[k], for any in-range index list (repeats and
\* any order), and leaves the schema as it was.
C5_ProjectIndexesTheFields ==
    ret.op = "project" =>
        /\ Len(ret.out) = Len(ret.indices)
        /\ \A k \in 1..Len(ret.indices) : ret.out[k] = ret.self[ret.indices[k] + 1]
        /\ sch = ret.self

\* C5 witness: a projection by a decreasing pair of indices over two
\* different fields.
C5_Witness ==
    /\ ret.op = "project"
    /\ Len(ret.indices) = 2
    /\ ret.indices[1] > ret.indices[2]
    /\ ret.self[1] # ret.self[2]

\* C6: Schema::select(names) returns, when every name is present, the first
\* field named names[k] at each position k, in the order of names; when a name
\* is absent, a "field not found" error and no schema; and the same call made
\* twice returns equal results.
C6_SelectTakesFirstMatch ==
    ret.op = "select" =>
        /\ (\A k \in 1..Len(ret.names) : ret.names[k] \in NameSet(ret.self)) =>
               /\ ret.out.ok
               /\ Len(ret.out.v) = Len(ret.names)
               /\ \A k \in 1..Len(ret.names) :
                      ret.out.v[k] = ret.self[FirstNamed(ret.self, ret.names[k])]
        /\ (\E k \in 1..Len(ret.names) : ret.names[k] \notin NameSet(ret.self)) =>
               /\ ~ret.out.ok
               /\ ret.out.err[1] = "field not found"
        /\ ret.before.some => ret.before.v = ret.out
        /\ sch = ret.self

\* C6 witness: a select, made twice, that lists twice a name two different
\* fields carry.
C6_Witness ==
    /\ ret.op = "select"
    /\ ret.out.ok
    /\ ret.before.some
    /\ ret.names = <<"a", "a">>
    /\ \E i, j \in 1..Len(ret.self) :
           /\ i < j
           /\ ret.self[i].name = "a"
           /\ ret.self[j].name = "a"
           /\ ret.self[i] # ret.self[j]

-----------------------------------------------------------------------------
(* Properties of the Column and type-mapping operations *)

\* C7: for a column built by Column::from_literal(value, len), len() is the
\* argument len whatever the scalar (null and len = 0 included), get(i) with
\* i < len returns a scalar equal to value, and get(i) with i >= len panics.
C7_LiteralLenAndGet ==
    /\ (ret.op = "len" /\ ret.self.via = "from_literal") =>
           ret.out = ret.self.ctor.len
    /\ (ret.op = "get" /\ ret.self.via = "from_literal") =>
           IF ret.i < ret.self.ctor.len
           THEN ret.out = Returned(ret.self.ctor.value)
           ELSE ret.out.panic

\* C7 witness: get(len) on a literal column with rows, built from a null
\* scalar, has panicked.
C7_Witness ==
    /\ ret.op = "get"
    /\ ret.self.via = "from_literal"
    /\ ~ret.self.ctor.value.payload.some
    /\ ret.self.ctor.len = MaxLen
    /\ ret.i = ret.self.ctor.len
    /\ ret.out.panic

\* C8 as stated: Column::dtype() panics on no Column value a caller can hold.
C8_DtypeNeverPanics ==
    ret.op = "dtype" => ~ret.out.panic

\* C8 amended: Column::try_from(array) returns Err and produces no column
\* exactly when the array's type tag is unsupported; dtype() never panics on
\* a column that came from try_from or from_literal (a literal's dtype is its
\* scalar's); it panics exactly on an Array column whose tag is unsupported,
\* which only the Column::Array variant written out by the caller produces.
C8_DtypePanicsOnlyOnUnvalidatedArray ==
    /\ ret.op = "try_from" =>
           /\ ret.out.ok <=> ret.array.data_type \notin UnsupportedArrow
           /\ ret.out.ok => col = Held(ColumnArray(ret.array), "try_from", ret.array)
           /\ ~ret.out.ok => col = ret.held
    /\ ret.op = "dtype" =>
           /\ ret.self.via \in {"try_from", "from_literal"} => ~ret.out.panic
           /\ ret.self.via = "from_literal" =>
                  ret.out = Returned(ret.self.ctor.value.variant)
           /\ ret.out.panic <=>
                  /\ ret.self.via = "variant"
                  /\ ret.self.ctor.data_type \in UnsupportedArrow

\* C8 witness: dtype() has returned Utf8 on an array column that try_from built.
C8_Witness ==
    /\ ret.op = "dtype"
    /\ ret.self.via = "try_from"
    /\ ret.out = Returned("Utf8")

\* C9: each of the 13 DataTypes converted to its arrow tag and back yields
\* Ok of itself, distinct DataTypes have distinct tags, every supported tag
\* comes back to the DataType it is the tag of, and a tag outside the 13
\* converts to Err.
C9_TypeMappingIsBijective ==
    /\ Cardinality(DataType) = 13
    /\ ret.op = "into_arrow" =>
           \A d \in DataType : d # ret.dt => ArrowFromDataType(d) # ret.out
    /\ ret.op = "from_arrow" =>
           /\ ret.from.some => ret.out = Ok(ret.from.v)
           /\ ret.tag \in UnsupportedArrow => ~ret.out.ok
           /\ ret.tag \notin UnsupportedArrow =>
                  /\ ret.out.ok
                  /\ ret.out.v \in DataType
                  /\ ArrowFromDataType(ret.out.v) = ret.tag

\* C9 witness: Float32 has been converted to its tag and the tag back.
C9_Witness ==
    /\ ret.op = "from_arrow"
    /\ ret.from = Some("Float32")
    /\ ret.out.ok

-----------------------------------------------------------------------------
(* Properties of the file-backed iterators and of projection shape *)

\* C11: once the iterator of a CSV or Parquet scan has yielded an error
\* item, from the decoder or from converting a decoded batch, no later
\* next() yields an item: an error is the last item of the sequence.
C11_ErrorItemIsLast ==
    \A i \in 1..Len(iters) :
        iters[i].kind \in {"csv", "parquet"} =>
            \A k \in 1..Len(iters[i].yielded) :
                ~iters[i].yielded[k].ok => k = Len(iters[i].yielded)

DecodedAt(it, k) == DecodedBatch(it.reader, k)

HasUnsupported(batch) ==
    \/ \E k \in 1..Len(batch.schema) : batch.schema[k].data_type \in UnsupportedArrow
    \/ \E k \in 1..Len(batch.columns) : batch.columns[k].data_type \in UnsupportedArrow

\* C13: converting a decoded external batch is all-or-nothing: with a field
\* or an array of an unsupported type the item is Err and carries no batch;
\* otherwise it is a batch with one column per external array, in the same
\* order, each column being that array (its storage shared, not copied).
C13_BatchConversionIsAllOrNothing ==
    \A i \in 1..Len(iters) :
        iters[i].kind \in {"csv", "parquet"} =>
            \A k \in 1..Len(iters[i].yielded) :
                source.path.decoded[k] = "batch" =>
                    LET ext == DecodedAt(iters[i], k)
                        item == iters[i].yielded[k]
                    IN  IF HasUnsupported(ext)
                        THEN ~item.ok
                        ELSE /\ item.ok
                             /\ Len(item.v.columns) = Len(ext.columns)
                             /\ Len(item.v.schema) = Len(ext.columns)
                             /\ \A j \in 1..Len(ext.columns) :
                                    /\ item.v.columns[j].kind = "Array"
                                    /\ item.v.columns[j].arr = ext.columns[j]

\* C13 witness: a Parquet batch with one supported and one unsupported
\* column has been refused whole, after a decoded batch with rows.
C13_Witness ==
    /\ source.kind = "parquet"
    /\ source.path.fields
         = <<ArrowField("a", "arrow::Int64"), ArrowField("b", "arrow::Date32")>>
    /\ source.path.decoded = <<"batch", "batch">>
    /\ Len(iters) = 1
    /\ ~iters[1].proj.some
    /\ Len(iters[1].yielded) = 2
    /\ ~iters[1].yielded[2].ok

\* C14: on the in-memory source scan(Some(names)), all names present, yields
\* as many batches as are stored; with names non-empty the batch at each
\* position reports the stored batch's row_count(); with names empty each
\* batch has zero columns and reports row_count() = 0 whatever the stored
\* batch's rows.
C14_ProjectionKeepsShape ==
    \A i \in 1..Len(iters) :
        LET it == iters[i]
        IN  (it.kind = "memory" /\ it.proj.some /\ AllPresent(source, it.proj.v)) =>
                /\ Len(it.yielded) + Len(it.items) = Len(source.batches)
                /\ it.done => Len(it.yielded) = Len(source.batches)
                /\ \A b \in 1..Len(it.yielded) :
                       /\ it.yielded[b].ok
                       /\ IF it.proj.v # <<>>
                          THEN /\ RowCount(it.yielded[b].v) = RowCount(source.batches[b])
                               /\ RowCount(it.yielded[b].v) = b
                          ELSE /\ ColumnCount(it.yielded[b].v) = 0
                               /\ RowCount(it.yielded[b].v) = 0

\* C14 witness: a finished scan with an empty name list over two stored
\* batches with columns, the second of two rows, reported zero rows.
C14_Witness ==
    /\ source.kind = "memory"
    /\ Len(source.schema) = 2
    /\ Len(iters) = 1
    /\ iters[1].proj = Some(<<>>)
    /\ iters[1].done
    /\ Len(iters[1].yielded) = 2
    /\ RowCount(source.batches[2]) = 2
    /\ RowCount(iters[1].yielded[2].v) = 0

====
